---- MODULE Spec2Model ----
(***************************************************************************)
(* A model of cache.py: the pattern catalog, the size probe, the tree      *)
(* scanner and the global-cache locator, the cleaner and the persisted     *)
(* session history.                                                        *)
(*                                                                         *)
(* A path is a sequence of names below the filesystem root <<>>.  A        *)
(* filesystem maps every path of the universe AllPaths to an entry: absent,*)
(* a file with a byte size, a directory, or a symbolic link with a target. *)
(* Sizes and thresholds are counted in units instead of bytes.             *)
(***************************************************************************)
EXTENDS Integers, Sequences, FiniteSets, TLC

VARIABLES
    fs,          \* the filesystem: [AllPaths -> entry]
    osName,      \* os.name of the platform: "posix" or "nt"
    histFile,    \* content of ~/.cacheclean/history.json
    pc,          \* position of the running command: "idle", "scanned"
    args,        \* arguments of the running scan command
    treeFound,   \* scan_dir's matches in discovery order (before line 150)
    treeMatches, \* scan_dir's return value
    globalFound, \* scan_global's matches in registration order (before line 163)
    globalMatches, \* scan_global's return value
    matches,     \* the list the scan command hands to clean_matches
    outcome,     \* how the last clean_matches ended
    report,      \* what the last clean_matches did: attempted, freed, deleted
    runs,        \* the clock: one tick per scan and per session recorded directly
    loaded,      \* value the last load_history call returned
    hist0        \* content of history.json before the first command

vars == <<fs, osName, histFile, pc, args, treeFound, treeMatches, globalFound,
          globalMatches, matches, outcome, report, runs, loaded, hist0>>

(***************************************************************************)
(* Strings                                                                 *)
(***************************************************************************)
\* str.startswith("*")
StartsWithStar(pattern) == Len(pattern) >= 1 /\ SubSeq(pattern, 1, 1) = "*"

\* pattern[1:]
Rest(pattern) == SubSeq(pattern, 2, Len(pattern))

\* str.endswith(suffix)
EndsWith(name, suffix) ==
    /\ Len(name) >= Len(suffix)
    /\ SubSeq(name, Len(name) - Len(suffix) + 1, Len(name)) = suffix

(***************************************************************************)
(* The pattern catalog, in registration order                              *)
(***************************************************************************)
CACHE_TYPES == <<
    [cat |-> "node", types |-> <<
        [name |-> "node_modules", patterns |-> <<"node_modules">>],
        [name |-> "node_cache", patterns |->
            <<".cache", ".parcel-cache", ".next/cache", ".nuxt", ".turbo">>] >>],
    [cat |-> "python", types |-> <<
        [name |-> "pycache", patterns |-> <<"__pycache__", "*.pyc">>],
        [name |-> "venv", patterns |-> <<".venv", "venv", ".env", "env">>],
        [name |-> "pytest", patterns |->
            <<".pytest_cache", ".mypy_cache", ".ruff_cache", ".tox">>],
        [name |-> "eggs", patterns |-> <<"*.egg-info", ".eggs", "dist", "build">>] >>],
    [cat |-> "rust", types |-> <<
        [name |-> "target", patterns |-> <<"target">>] >>],
    [cat |-> "go", types |-> <<
        [name |-> "go_build", patterns |-> <<"go-build">>] >>],
    [cat |-> "java", types |-> <<
        [name |-> "gradle", patterns |-> <<".gradle", "build">>] >>],
    [cat |-> "dotnet", types |-> <<
        [name |-> "dotnet", patterns |-> <<"bin", "obj">>] >>],
    [cat |-> "misc", types |-> <<
        [name |-> "coverage", patterns |->
            <<"coverage", ".coverage", "htmlcov", ".nyc_output">>],
        [name |-> "logs", patterns |-> <<"*.log", "logs">>],
        [name |-> "temp", patterns |-> <<"tmp", "temp", ".tmp">>],
        [name |-> "os", patterns |-> <<".DS_Store", "Thumbs.db">>] >>] >>

\* The test of lines 130-134 for one pattern.
PatternHit(pattern, name) ==
    IF StartsWithStar(pattern) THEN EndsWith(name, Rest(pattern))
                               ELSE name = pattern

NoMatch == [matched |-> FALSE, cat |-> "", type |-> ""]

\* The pattern loop of lines 129-140 from pattern k on: the first hit breaks.
RECURSIVE PatternLoop(_, _, _)
PatternLoop(patterns, name, k) ==
    IF k > Len(patterns) THEN FALSE
    ELSE IF PatternHit(patterns[k], name) THEN TRUE
    ELSE PatternLoop(patterns, name, k + 1)

\* The cache-type loop of lines 128-142 from type t on.
RECURSIVE TypeLoop(_, _, _, _)
TypeLoop(cat, types, name, t) ==
    IF t > Len(types) THEN NoMatch
    ELSE IF PatternLoop(types[t].patterns, name, 1)
         THEN [matched |-> TRUE, cat |-> cat, type |-> types[t].name]
         ELSE TypeLoop(cat, types, name, t + 1)

\* The category loop of lines 125-144 from category c on; categories is the
\* filter, the empty set standing for None (and for an empty list, equally falsy).
RECURSIVE CatLoop(_, _, _)
CatLoop(name, categories, c) ==
    IF c > Len(CACHE_TYPES) THEN NoMatch
    ELSE IF categories # {} /\ CACHE_TYPES[c].cat \notin categories
         THEN CatLoop(name, categories, c + 1)
    ELSE LET r == TypeLoop(CACHE_TYPES[c].cat, CACHE_TYPES[c].types, name, 1)
         IN IF r.matched THEN r ELSE CatLoop(name, categories, c + 1)

\* The category loop run from the last registered category down to the first.
RECURSIVE CatLoopDown(_, _, _)
CatLoopDown(name, categories, c) ==
    IF c < 1 THEN NoMatch
    ELSE IF categories # {} /\ CACHE_TYPES[c].cat \notin categories
         THEN CatLoopDown(name, categories, c - 1)
    ELSE LET r == TypeLoop(CACHE_TYPES[c].cat, CACHE_TYPES[c].types, name, 1)
         IN IF r.matched THEN r ELSE CatLoopDown(name, categories, c - 1)

MatchNameLast(name, categories) == CatLoopDown(name, categories, Len(CACHE_TYPES))

\* The classification of one entry name (lines 124-144).
MatchName(name, categories) == CatLoop(name, categories, 1)

(***************************************************************************)
(* The filesystem                                                          *)
(***************************************************************************)
\* An entry: its kind, the byte size of a file, the target of a symbolic link,
\* and whether the operating system refuses to remove it (prot).
Absent == [kind |-> "absent", size |-> 0, target |-> <<>>, prot |-> FALSE]
Dir == [kind |-> "dir", size |-> 0, target |-> <<>>, prot |-> FALSE]
\* a directory whose permissions deny listing it
Locked == [kind |-> "locked", size |-> 0, target |-> <<>>, prot |-> FALSE]
File(n) == [kind |-> "file", size |-> n, target |-> <<>>, prot |-> FALSE]
Link(t) == [kind |-> "link", size |-> 0, target |-> t, prot |-> FALSE]
Protected(e) == [e EXCEPT !.prot = TRUE]

\* Path.home()
Home == <<"home">>
Proj == Home \o <<"proj">>

\* The paths a filesystem of the model can populate.
AllPaths == {
    Home,
    Home \o <<".cache">>,
    Home \o <<".cache", "go-build">>,
    Home \o <<".cache", "go-build", "f">>,
    Home \o <<".cache", "pip">>,
    Home \o <<".cache", "pip", "f">>,
    Home \o <<".npm">>,
    Home \o <<".npm", "f">>,
    Home \o <<"AppData">>,
    Home \o <<"AppData", "Local">>,
    Home \o <<"AppData", "Local", "go-build">>,
    Home \o <<"AppData", "Local", "go-build", "f">>,
    Proj,
    Proj \o <<"node_modules">>,
    Proj \o <<"node_modules", "f">>,
    Proj \o <<"node_modules", "build">>,
    Proj \o <<"node_modules", "build", "f">>,
    Proj \o <<"src">>,
    Proj \o <<"src", "__pycache__">>,
    Proj \o <<"src", "__pycache__", "f">>,
    Proj \o <<"build">>,
    Proj \o <<"build", "f">>,
    Proj \o <<"x.log">>,
    Proj \o <<".git">>,
    Proj \o <<".git", "build">>,
    Proj \o <<".git", "build", "f">>,
    Proj \o <<"lib">> }

\* The order in which a directory listing returns names (reversed on demand:
\* the order of Path.iterdir is the operating system's).
NameOrder == <<".cache", ".git", ".npm", "AppData", "Local", "__pycache__",
               "build", "f", "go-build", "lib", "node_modules", "pip", "proj",
               "src", "x.log">>

Front(p) == SubSeq(p, 1, Len(p) - 1)
Last(p) == p[Len(p)]
IsPrefix(p, q) == Len(p) <= Len(q) /\ SubSeq(q, 1, Len(p)) = p
IsStrictPrefix(p, q) == Len(p) < Len(q) /\ SubSeq(q, 1, Len(p)) = p

RECURSIVE Reverse(_)
Reverse(s) == IF s = <<>> THEN <<>> ELSE Reverse(Tail(s)) \o <<Head(s)>>

\* No entry: what resolving a missing path or a symlink loop gives.
NoPath == <<"?">>

\* The entry a path names once every symbolic link on the way, the last one
\* included, is followed (what stat() sees); fuel bounds the links followed.
RECURSIVE RealFuel(_, _)
RealFuel(p, fuel) ==
    IF p = <<>> THEN <<>>
    ELSE LET par == RealFuel(Front(p), fuel)
             q == par \o <<Last(p)>>
         IN IF par = NoPath \/ q \notin AllPaths \/ fs[q].kind = "absent" THEN NoPath
            ELSE IF fs[q].kind = "link"
                 THEN IF fuel = 0 THEN NoPath ELSE RealFuel(fs[q].target, fuel - 1)
            ELSE q

Real(p) == RealFuel(p, Cardinality(AllPaths))

\* The directory entry a path names, its last component not followed (lstat).
Loc(p) ==
    IF p = <<>> THEN <<>>
    ELSE LET par == Real(Front(p)) IN
         IF par = NoPath THEN NoPath ELSE par \o <<Last(p)>>

\* os.path.lexists
LExists(p) == p = <<>> \/ (Loc(p) \in AllPaths /\ fs[Loc(p)].kind # "absent")
\* Path.exists, Path.is_file, Path.is_dir: all follow symbolic links
Exists(p) == Real(p) # NoPath
IsFile(p) == LET r == Real(p) IN r # NoPath /\ r # <<>> /\ fs[r].kind = "file"
IsDir(p) == LET r == Real(p) IN
            r # NoPath /\ (r = <<>> \/ fs[r].kind \in {"dir", "locked"})
IsSymlink(p) == LExists(p) /\ p # <<>> /\ fs[Loc(p)].kind = "link"

\* The entries of fs strictly below the real directory rp.
Below(rp) == {q \in AllPaths : IsStrictPrefix(rp, q) /\ fs[q].kind # "absent"}

\* get_size (lines 61-76).  rglob lists every entry below the directory without
\* walking through symbolic links or unreadable directories (under which the
\* filesystems of the model hold nothing); is_file and stat follow links.
SizeOfFile(q) == LET r == Real(q) IN
                 IF r # NoPath /\ r # <<>> /\ fs[r].kind = "file" THEN fs[r].size ELSE 0
RECURSIVE SumSizes(_)
SumSizes(S) ==
    IF S = {} THEN 0
    ELSE LET q == CHOOSE y \in S : TRUE IN SizeOfFile(q) + SumSizes(S \ {q})
get_size(path) ==
    LET r == Real(path) IN
    IF r = NoPath THEN 0
    ELSE IF r # <<>> /\ fs[r].kind = "file" THEN fs[r].size
    ELSE SumSizes(Below(r))

\* list(path.iterdir()) of a readable directory: the children of the real
\* directory, named through path, in listing order.
Iterdir(path, rev) ==
    LET rp == Real(path)
        names == SelectSeq(NameOrder,
                     LAMBDA n : rp \o <<n>> \in AllPaths /\ fs[rp \o <<n>>].kind # "absent")
        ordered == IF rev THEN Reverse(names) ELSE names
    IN [i \in 1..Len(ordered) |-> path \o <<ordered[i]>>]

(***************************************************************************)
(* Scanning                                                                *)
(***************************************************************************)
Match(path, category, cache_type, size) ==
    [path |-> path, category |-> category, cache_type |-> cache_type, size |-> size]

skip_dirs == {".git", ".hg", ".svn", "$RECYCLE.BIN", "Windows", "Program Files"}

\* Path.name
Name(p) == IF p = <<>> THEN "" ELSE Last(p)

\* Recording a classified entry whatever its size.
RecordAnySize(entry, m, acc, a) ==
    [seen |-> acc.seen \cup {entry},
     matches |-> Append(acc.matches, Match(entry, m.cat, m.type, get_size(entry)))]

\* One entry of the loop of lines 120-147 that is not in seen: a name the
\* catalog classifies is recorded when its size reaches the threshold and is
\* never descended into; acc is [seen, matches].
Record(entry, m, acc, a) ==
    LET size == get_size(entry) IN
    IF size >= a.min_size
    THEN [seen |-> acc.seen \cup {entry},
          matches |-> Append(acc.matches, Match(entry, m.cat, m.type, size))]
    ELSE acc

\* scan(path), lines 107-147, and its loop over entries from the i-th on.
RECURSIVE ScanAt(_, _, _)
RECURSIVE ScanEntries(_, _, _, _)
RECURSIVE ScanEntriesDescend(_, _, _, _)
ScanAt(path, acc, a) ==
    IF path \in acc.seen \/ ~Exists(path) THEN acc
    ELSE IF Name(path) \in skip_dirs THEN acc
    ELSE IF a.max_depth # 0 /\ Len(path) - a.base_depth > a.max_depth THEN acc
    ELSE IF Real(path) # <<>> /\ fs[Real(path)].kind = "locked" THEN acc
    ELSE ScanEntries(Iterdir(path, a.rev), 1, acc, a)

\* The loop over entries, walking into the directories it records as well.
ScanEntriesDescend(entries, i, acc, a) ==
    IF i > Len(entries) THEN acc
    ELSE LET entry == entries[i]
             m == MatchName(Name(entry), a.categories)
             rec == IF m.matched THEN Record(entry, m, acc, a) ELSE acc
             next == IF entry \in acc.seen THEN acc
                     ELSE IF IsDir(entry) /\ Name(entry) \notin skip_dirs
                               /\ fs[Real(entry)].kind # "locked"
                          THEN ScanEntriesDescend(Iterdir(entry, a.rev), 1, rec, a)
                     ELSE rec
         IN ScanEntriesDescend(entries, i + 1, next, a)

ScanEntries(entries, i, acc, a) ==
    IF i > Len(entries) THEN acc
    ELSE LET entry == entries[i]
             m == MatchName(Name(entry), a.categories)
             next == IF entry \in acc.seen THEN acc
                     ELSE IF m.matched THEN Record(entry, m, acc, a)
                     ELSE IF IsDir(entry) THEN ScanAt(entry, acc, a)
                     ELSE acc
         IN ScanEntries(entries, i + 1, next, a)

\* sorted(matches, key=lambda m: m.size, reverse=True): a stable sort, so
\* matches of equal size keep their order.  Insert puts m behind every match
\* that is at least as large.
\* Inserting m in front of the matches of its own size.
RECURSIVE InsertBeforeEqual(_, _)
InsertBeforeEqual(m, sorted) ==
    IF sorted = <<>> THEN <<m>>
    ELSE IF Head(sorted).size > m.size
         THEN <<Head(sorted)>> \o InsertBeforeEqual(m, Tail(sorted))
    ELSE <<m>> \o sorted

RECURSIVE Insert(_, _)
Insert(m, sorted) ==
    IF sorted = <<>> THEN <<m>>
    ELSE IF Head(sorted).size >= m.size THEN <<Head(sorted)>> \o Insert(m, Tail(sorted))
    ELSE <<m>> \o sorted

RECURSIVE SortFrom(_, _, _)
SortFrom(list, i, sorted) ==
    IF i > Len(list) THEN sorted ELSE SortFrom(list, i + 1, Insert(list[i], sorted))

SortBySize(list) == SortFrom(list, 1, <<>>)

\* The matches scan_dir accumulates (lines 100-149), in discovery order; line
\* 150 returns them sorted.
ScanDirFound(root, categories, max_depth, min_size, rev) ==
    LET r == Real(root)
        a == [categories |-> categories, max_depth |-> max_depth,
              min_size |-> min_size, rev |-> rev, base_depth |-> Len(r)]
    IN ScanAt(r, [seen |-> {}, matches |-> <<>>], a).matches

\* GLOBAL_CACHES (lines 52-58), in registration order
GLOBAL_CACHES(os) == <<
    [name |-> "npm", path |-> Home \o (IF os = "nt" THEN <<"AppData", "Local", "npm-cache">>
                                                    ELSE <<".npm">>)],
    [name |-> "yarn", path |-> Home \o (IF os = "nt" THEN <<"AppData", "Local", "Yarn", "Cache">>
                                                     ELSE <<".cache", "yarn">>)],
    [name |-> "pip", path |-> Home \o (IF os = "nt" THEN <<"AppData", "Local", "pip", "cache">>
                                                    ELSE <<".cache", "pip">>)],
    [name |-> "cargo", path |-> Home \o <<".cargo", "registry", "cache">>],
    [name |-> "go", path |-> Home \o (IF os = "nt" THEN <<"AppData", "Local", "go-build">>
                                                   ELSE <<".cache", "go-build">>)] >>

\* The loop of scan_global (lines 154-162) from the i-th registered cache on.
RECURSIVE GlobalLoop(_, _, _, _)
GlobalLoop(os, min_size, i, found) ==
    IF i > Len(GLOBAL_CACHES(os)) THEN found
    ELSE LET g == GLOBAL_CACHES(os)[i]
             size == get_size(g.path)
         IN GlobalLoop(os, min_size, i + 1,
                IF Exists(g.path) /\ size >= min_size
                THEN Append(found, Match(g.path, "global", g.name, size))
                ELSE found)

\* The matches scan_global accumulates (lines 153-162), in registration order;
\* line 163 returns them sorted.
ScanGlobalFound(os, min_size) == GlobalLoop(os, min_size, 1, <<>>)

(***************************************************************************)
(* The persisted history                                                   *)
(***************************************************************************)
\* The content of history.json by shape: no file ("missing"), text that is
\* not JSON ("garbage"), a JSON array of records ("array"), an object whose
\* "sessions" key holds an array of records ("wrapped"), an object whose
\* "sessions" key holds a value that is not an array ("wrappedOther"), an
\* object without that key ("object"), any other JSON value ("scalar").
HistFile(shape, recs) == [shape |-> shape, recs |-> recs]

HistoryCap == 100

\* What load_history returns: a list, or a value that is not a list.
AList(items) == [list |-> TRUE, items |-> items]
NotAList == [list |-> FALSE, items |-> <<>>]

\* load_history (lines 166-179)
load_history(file) ==
    IF file.shape = "missing" THEN AList(<<>>)
    ELSE IF file.shape = "garbage" THEN AList(<<>>)
    ELSE IF file.shape = "wrapped" THEN AList(file.recs)
    ELSE IF file.shape = "wrappedOther" THEN NotAList
    ELSE IF file.shape = "array" THEN AList(file.recs)
    ELSE AList(<<>>)

\* sessions[:100]
FirstN(sessions, n) ==
    IF Len(sessions) <= n THEN sessions ELSE SubSeq(sessions, 1, n)

\* sessions[-100:]
LastN(sessions, n) ==
    IF Len(sessions) <= n THEN sessions
    ELSE SubSeq(sessions, Len(sessions) - n + 1, Len(sessions))

\* save_history (lines 181-183)
save_history(sessions) == HistFile("array", LastN(sessions, HistoryCap))

Session(date, path, size, items, dry_run) ==
    [date |-> date, path |-> path, size |-> size, items |-> items, dry_run |-> dry_run]

\* add_session (lines 185-194): the file it leaves, and whether it raised
\* (h.append on a value that is not a list raises AttributeError before
\* anything is written).
add_session(file, rec) ==
    LET h == load_history(file) IN
    IF h.list THEN [raised |-> FALSE, file |-> save_history(Append(h.items, rec))]
    ELSE [raised |-> TRUE, file |-> file]

(***************************************************************************)
(* Cleaning                                                                *)
(***************************************************************************)
RECURSIVE SumMatchSizes(_)
SumMatchSizes(list) ==
    IF list = <<>> THEN 0 ELSE Head(list).size + SumMatchSizes(Tail(list))

\* Whether removing the match path raises (lines 264-267): unlink of a file
\* the system protects; rmtree of a path that is missing, is a symbolic link,
\* or holds something unreadable or protected.
RemovalFails(path) ==
    IF IsFile(path) THEN fs[Loc(path)].prot
    ELSE \/ ~LExists(path)
         \/ IsSymlink(path)
         \/ fs[Loc(path)].kind = "locked"
         \/ fs[Loc(path)].prot
         \/ \E q \in Below(Loc(path)) : fs[q].prot \/ fs[q].kind = "locked"

\* The filesystem after a removal that succeeds (one that raises is taken to
\* remove nothing): unlink removes the entry the
\* path names (a link to a file, not its target), rmtree the whole subtree.
Removed(path) ==
    [q \in AllPaths |-> IF IsPrefix(Loc(path), q) THEN Absent ELSE fs[q]]

(***************************************************************************)
(* Initial states                                                          *)
(***************************************************************************)
MaxRuns == 2
MaxMinSize == 2
MaxDepthArg == 1
MaxAppends == 102

\* What proj/build can be: nothing, a file, a directory holding a file, a
\* link to proj/node_modules, a dangling link.
BuildChoices == {
    [top |-> Absent, f |-> Absent],
    [top |-> File(2), f |-> Absent],
    [top |-> Dir, f |-> File(1)],
    [top |-> Link(Proj \o <<"node_modules">>), f |-> Absent],
    [top |-> Link(Home \o <<"gone">>), f |-> Absent] }

\* What proj/lib can be: nothing, a link to proj/src, an unreadable directory.
LibChoices == {Absent, Link(Proj \o <<"src">>), Locked}

\* What proj/x.log can be: a file, a file the system refuses to remove, a
\* dangling link.
LogChoices == {File(1), Protected(File(1)), Link(Home \o <<"gone">>)}

MakeFS(build, lib, log) ==
    [q \in AllPaths |->
        CASE q = Proj \o <<"build">> -> build.top
          [] q = Proj \o <<"build", "f">> -> build.f
          [] q = Proj \o <<"lib">> -> lib
          [] q = Proj \o <<"x.log">> -> log
          [] q = Home \o <<".cache", "go-build", "f">> -> File(1)
          [] q = Home \o <<".cache", "pip", "f">> -> File(2)
          [] q = Home \o <<".npm", "f">> -> File(1)
          [] q = Home \o <<"AppData", "Local", "go-build", "f">> -> File(1)
          [] q = Proj \o <<"node_modules", "f">> -> File(2)
          [] q = Proj \o <<"node_modules", "build", "f">> -> File(1)
          [] q = Proj \o <<"src", "__pycache__", "f">> -> File(1)
          [] q = Proj \o <<".git", "build", "f">> -> File(3)
          [] OTHER -> Dir]

\* A record an earlier version wrote, and one this version wrote.
OldRecord == [timestamp |-> 0, scan_path |-> Proj, total_size_bytes |-> 1]
NewRecord == Session(0, Proj, 1, 1, TRUE)

HistChoices == {
    HistFile("missing", <<>>),
    HistFile("garbage", <<>>),
    HistFile("array", <<>>),
    HistFile("array", <<NewRecord>>),
    HistFile("wrapped", <<>>),
    HistFile("wrapped", <<OldRecord>>),
    HistFile("wrappedOther", <<>>),
    HistFile("object", <<>>),
    HistFile("scalar", <<>>) }

NoReport == [i |-> 0, freed |-> 0, deleted |-> 0, attempted |-> <<>>, ok |-> <<>>]
NoArgs == [root |-> <<>>, categories |-> {}, max_depth |-> 0, min_size |-> 0,
           incl_global |-> FALSE, rev |-> FALSE]

InitWith(builds, libs, logs, oses, hists) ==
    /\ fs \in {MakeFS(b, l, x) : b \in builds, l \in libs, x \in logs}
    /\ osName \in oses
    /\ histFile \in hists
    /\ hist0 = histFile
    /\ pc = "idle"
    /\ args = NoArgs
    /\ treeFound = <<>> /\ treeMatches = <<>>
    /\ globalFound = <<>> /\ globalMatches = <<>>
    /\ matches = <<>>
    /\ outcome = "none"
    /\ report = NoReport
    /\ runs = 0
    /\ loaded = AList(<<>>)

(***************************************************************************)
(* The scan command (lines 301-327)                                        *)
(***************************************************************************)
\* Lines 322-324: matches.extend(scan_global(...)); matches.sort(...)
Merge(tree, global, incl_global) ==
    IF incl_global THEN SortBySize(tree \o global) ELSE tree

\* Lines 320-324: scan_dir, then scan_global merged in and the whole re-sorted
\* when global scanning is asked for.
Scan(root, categories, max_depth, min_bytes, incl_global, rev) ==
    /\ pc = "idle"
    /\ runs < MaxRuns
    /\ runs' = runs + 1
    /\ args' = [root |-> Real(root), categories |-> categories, max_depth |-> max_depth,
                min_size |-> min_bytes, incl_global |-> incl_global, rev |-> rev]
    /\ treeFound' = ScanDirFound(root, categories, max_depth, min_bytes, rev)
    /\ treeMatches' = SortBySize(treeFound')
    /\ globalFound' = IF incl_global THEN ScanGlobalFound(osName, min_bytes) ELSE <<>>
    /\ globalMatches' = SortBySize(globalFound')
    /\ matches' = Merge(treeMatches', globalMatches', incl_global)
    /\ pc' = "scanned"
    /\ outcome' = "none"
    /\ report' = NoReport
    /\ UNCHANGED <<fs, osName, histFile, loaded, hist0>>

\* The record clean_matches writes: the date is the clock's reading.
CleanSession(size, items, dry_run) == Session(runs, args.root, size, items, dry_run)

\* clean_matches, lines 237-238: nothing matched.
CleanEmpty ==
    /\ pc = "scanned"
    /\ matches = <<>>
    /\ outcome' = "empty"
    /\ pc' = "idle"
    /\ UNCHANGED <<fs, osName, histFile, args, treeFound, treeMatches, globalFound,
                   globalMatches, matches, report, runs, loaded, hist0>>

\* clean_matches, lines 240-249: the dry run.
CleanDryRun ==
    /\ pc = "scanned"
    /\ matches # <<>>
    /\ LET r == add_session(histFile,
                    CleanSession(SumMatchSizes(matches), Len(matches), TRUE))
       IN /\ histFile' = r.file
          /\ outcome' = IF r.raised THEN "crashed" ELSE "dryrun"
    /\ pc' = "idle"
    /\ UNCHANGED <<fs, osName, args, treeFound, treeMatches, globalFound,
                   globalMatches, matches, report, runs, loaded, hist0>>

\* A declined prompt that still records a session.
CleanDeclinedRecords ==
    /\ pc = "scanned"
    /\ matches # <<>>
    /\ histFile' = add_session(histFile, CleanSession(0, 0, FALSE)).file
    /\ outcome' = "declined"
    /\ pc' = "idle"
    /\ UNCHANGED <<fs, osName, args, treeFound, treeMatches, globalFound,
                   globalMatches, matches, report, runs, loaded, hist0>>

\* clean_matches, lines 251-255: the prompt is answered no.
CleanDeclined ==
    /\ pc = "scanned"
    /\ matches # <<>>
    /\ outcome' = "declined"
    /\ pc' = "idle"
    /\ UNCHANGED <<fs, osName, histFile, args, treeFound, treeMatches, globalFound,
                   globalMatches, matches, report, runs, loaded, hist0>>

\* clean_matches, lines 251-258: execute mode, the prompt skipped or answered yes.
CleanBegin ==
    /\ pc = "scanned"
    /\ matches # <<>>
    /\ pc' = "deleting"
    /\ report' = [i |-> 1, freed |-> 0, deleted |-> 0, attempted |-> <<>>, ok |-> <<>>]
    /\ UNCHANGED <<fs, osName, histFile, args, treeFound, treeMatches, globalFound,
                   globalMatches, matches, outcome, runs, loaded, hist0>>

\* One turn of the loop of lines 262-272.
DeleteItem ==
    /\ pc = "deleting"
    /\ report.i <= Len(matches)
    /\ LET m == matches[report.i]
           fails == RemovalFails(m.path)
       IN /\ fs' = IF fails THEN fs ELSE Removed(m.path)
          /\ report' = [i |-> report.i + 1,
                        freed |-> IF fails THEN report.freed ELSE report.freed + m.size,
                        deleted |-> IF fails THEN report.deleted ELSE report.deleted + 1,
                        attempted |-> Append(report.attempted, m.path),
                        ok |-> Append(report.ok, ~fails)]
    /\ UNCHANGED <<osName, histFile, pc, args, treeFound, treeMatches, globalFound,
                   globalMatches, matches, outcome, runs, loaded, hist0>>

\* clean_matches, lines 274-279: the batch is over, the session is recorded.
CleanFinish ==
    /\ pc = "deleting"
    /\ report.i > Len(matches)
    /\ LET r == add_session(histFile, CleanSession(report.freed, report.deleted, FALSE))
       IN /\ histFile' = r.file
          /\ outcome' = IF r.raised THEN "crashed" ELSE "executed"
    /\ pc' = "idle"
    /\ UNCHANGED <<fs, osName, args, treeFound, treeMatches, globalFound,
                   globalMatches, matches, report, runs, loaded, hist0>>

\* clean_matches up to the batch (lines 235-258): dry_run and skip_confirm are
\* its arguments, confirm the answer click.confirm would return.
clean_matches(dry_run, skip_confirm, confirm) ==
    \/ CleanEmpty
    \/ dry_run /\ CleanDryRun
    \/ ~dry_run /\ ~skip_confirm /\ ~confirm /\ CleanDeclined
    \/ ~dry_run /\ (skip_confirm \/ confirm) /\ CleanBegin

\* The scan command run up to MaxRuns times, with or without -x and -y.
Init == InitWith({[top |-> Dir, f |-> File(1)]}, {Link(Proj \o <<"src">>)},
                 {File(1), Protected(File(1))}, {"posix", "nt"},
                 {HistFile("missing", <<>>), HistFile("wrapped", <<OldRecord>>),
                  HistFile("wrappedOther", <<>>)})

Next ==
    \/ \E root \in {Home, Proj}, categories \in {{}, {"go"}}, incl_global \in BOOLEAN :
          Scan(root, categories, 0, 1, incl_global, FALSE)
    \/ \E dry_run \in BOOLEAN, skip_confirm \in BOOLEAN, confirm \in BOOLEAN :
          clean_matches(dry_run, skip_confirm, confirm)
    \/ DeleteItem
    \/ CleanFinish

Spec == Init /\ [][Next]_vars

(***************************************************************************)
(* Scanning alone, over every filesystem and argument of the model         *)
(***************************************************************************)
CategoryChoices == {{}, {"go"}, {"java"}, {"python", "misc"}}

InitScan == InitWith(BuildChoices, LibChoices, LogChoices, {"posix", "nt"},
                     {HistFile("missing", <<>>)})

NextScan ==
    \E root \in {Home, Proj}, categories \in CategoryChoices,
       max_depth \in 0..MaxDepthArg, min_bytes \in 0..MaxMinSize,
       incl_global \in BOOLEAN, rev \in BOOLEAN :
          Scan(root, categories, max_depth, min_bytes, incl_global, rev)

SpecScan == InitScan /\ [][NextScan]_vars

(***************************************************************************)
(* The history store alone                                                 *)
(***************************************************************************)
\* The record of the n-th session added.
NthSession(n) == Session(n, Proj, n % 3, 1, n % 2 = 0)

\* add_session (lines 185-194) called at clock reading runs + 1.
AddSession ==
    /\ pc = "idle"
    /\ runs < MaxAppends
    /\ runs' = runs + 1
    /\ LET r == add_session(histFile, NthSession(runs + 1))
       IN /\ histFile' = r.file
          /\ outcome' = IF r.raised THEN "crashed" ELSE "added"
    /\ UNCHANGED <<fs, osName, pc, args, treeFound, treeMatches, globalFound,
                   globalMatches, matches, report, loaded, hist0>>

\* The history and stats commands, lines 333 and 361: h = load_history()
LoadHistory ==
    /\ pc = "idle"
    /\ loaded' = load_history(histFile)
    /\ pc' = "loaded"
    /\ UNCHANGED <<fs, osName, histFile, args, treeFound, treeMatches, globalFound,
                   globalMatches, matches, outcome, report, runs, hist0>>

\* The command that loaded the history ends.
LoadDone ==
    /\ pc = "loaded"
    /\ loaded' = AList(<<>>)
    /\ pc' = "idle"
    /\ UNCHANGED <<fs, osName, histFile, args, treeFound, treeMatches, globalFound,
                   globalMatches, matches, outcome, report, runs, hist0>>

InitHist == InitWith({[top |-> Absent, f |-> Absent]}, {Absent}, {File(1)}, {"posix"},
                     HistChoices)

NextHist == AddSession \/ LoadHistory \/ LoadDone

SpecHist == InitHist /\ [][NextHist]_vars

(***************************************************************************)
(* Properties                                                              *)
(***************************************************************************)
Min(x, y) == IF x <= y THEN x ELSE y

Paths(list) == [i \in DOMAIN list |-> list[i].path]

\* The resolved path of a match path: what its links lead to, or the entry
\* itself when they lead nowhere.
Resolved(p) == IF Exists(p) THEN Real(p) ELSE Loc(p)

NoDuplicate(list) ==
    \A i, j \in DOMAIN list : i < j => Resolved(list[i].path) # Resolved(list[j].path)

\* The record a dry run over the current matches writes.
DryRunSession == CleanSession(SumMatchSizes(matches), Len(matches), TRUE)

\* The history that results from appending rec to what file holds.
Appended(file, rec) == LastN(Append(load_history(file).items, rec), HistoryCap)

\* C1: a dry run over a non-empty match list deletes nothing and appends
\* exactly one session record, with dry_run = true, the sum of the match sizes
\* and the number of matches, whatever ran before it.
C1_DryRunRecordsOne ==
    [][CleanDryRun =>
        /\ fs' = fs
        /\ load_history(histFile').list
        /\ load_history(histFile').items = Appended(histFile, DryRunSession)]_vars

\* C1 where history.json holds anything load_history turns into a list.
C1_DryRunListHistory ==
    [][(CleanDryRun /\ load_history(histFile).list) =>
        /\ fs' = fs
        /\ load_history(histFile').items = Appended(histFile, DryRunSession)]_vars

C1_Witness == pc = "idle" /\ outcome = "dryrun" /\ runs = MaxRuns /\ Len(matches) >= 2

\* C2: a clean that ends on an empty match list or on a declined prompt leaves
\* the filesystem, hence every matched path, and the persisted history as
\* they were.
C2_NoEffect ==
    [][(pc = "scanned" /\ outcome' \in {"empty", "declined"}) =>
        (fs' = fs /\ histFile' = histFile)]_vars

C2_Witness ==
    /\ pc = "idle" /\ outcome = "declined" /\ Len(matches) >= 2
    /\ \A i \in DOMAIN matches : LExists(matches[i].path)

\* What an execute batch must report once it is over: every match attempted in
\* list order, deleted the number of removals that succeeded, freed the sum
\* of the sizes of exactly those matches.
RECURSIVE SumOk(_, _)
SumOk(list, ok) ==
    IF list = <<>> THEN 0
    ELSE (IF Head(ok) THEN Head(list).size ELSE 0) + SumOk(Tail(list), Tail(ok))

BatchReport ==
    /\ report.attempted = Paths(matches)
    /\ Len(report.ok) = Len(matches)
    /\ report.deleted = Cardinality({i \in DOMAIN matches : report.ok[i]})
    /\ report.freed = SumOk(matches, report.ok)

ExecuteSession == CleanSession(report.freed, report.deleted, FALSE)

\* C3: in an execute clean a removal that fails does not stop the batch, the
\* counts cover exactly the removals that succeeded, and one session record
\* with dry_run = false, size = freed and items = deleted is appended after it.
C3_BatchIsolatedAndRecorded ==
    [][CleanFinish =>
        /\ BatchReport
        /\ load_history(histFile').list
        /\ load_history(histFile').items = Appended(histFile, ExecuteSession)]_vars

\* C3 where history.json holds anything load_history turns into a list.
C3_BatchListHistory ==
    [][(CleanFinish /\ load_history(histFile).list) =>
        /\ BatchReport
        /\ load_history(histFile').items = Appended(histFile, ExecuteSession)]_vars

\* A removal succeeded exactly when the entry is gone after its turn.
C3_RemovalObserved ==
    [][DeleteItem =>
        LET p == matches[report.i].path IN
        /\ report'.ok[report.i] = (LExists(p) /\ fs'[Loc(p)] = Absent)
        /\ ~report'.ok[report.i] => fs' = fs]_vars

C3_Witness ==
    /\ pc = "idle" /\ outcome = "executed" /\ Len(matches) >= 3
    /\ report.deleted = Len(matches) - 1

\* The sessions the history must hold after n sessions were added to an empty
\* history: the last min(n, 100), oldest first.
ExpectedHistory(n) ==
    LET k == Min(n, HistoryCap) IN [i \in 1..k |-> NthSession(n - k + i)]

\* C4: after n sessions added to an empty history, load_history returns the
\* last min(n, 100) of them in the order they were added.
C4_HistoryBound ==
    (pc = "loaded" /\ load_history(hist0) = AList(<<>>)) =>
        loaded = AList(ExpectedHistory(runs))

C4_Witness ==
    /\ pc = "loaded" /\ load_history(hist0) = AList(<<>>)
    /\ runs > HistoryCap /\ Len(loaded.items) = HistoryCap
    /\ loaded.items[1] = NthSession(runs - HistoryCap + 1)

\* C5: no resolved path appears twice in the match list of one invocation,
\* neither in scan_dir's output nor in the list merged with scan_global's.
C5_NoDuplicatePath ==
    pc = "scanned" => (NoDuplicate(treeMatches) /\ NoDuplicate(matches))

\* C6: in the output of one scan_dir call no match lies below another match.
C6_ShortCircuit ==
    pc = "scanned" =>
        \A i, j \in DOMAIN treeMatches :
            ~IsStrictPrefix(treeMatches[i].path, treeMatches[j].path)

C6_Witness ==
    /\ pc = "scanned"
    /\ \E i \in DOMAIN treeMatches : treeMatches[i].path = Proj \o <<"node_modules">>
    /\ MatchName("build", args.categories).matched
    /\ get_size(Proj \o <<"node_modules", "build">>) >= args.min_size

\* C7: every match of scan_dir, of scan_global and of the merged list has the
\* size of its path, which is at least the threshold, and names an entry of
\* the filesystem scanned (for scan_global one that exists once links are
\* followed); so nothing below the threshold is listed.
SizedAndPresent(list) ==
    \A i \in DOMAIN list :
        /\ list[i].size = get_size(list[i].path)
        /\ list[i].size >= args.min_size
        /\ LExists(list[i].path)

OfSize(list, n) == SelectSeq(list, LAMBDA m : m.size = n)
StablySorted(in, out) ==
    /\ Len(out) = Len(in)
    /\ \A i \in 1..(Len(out) - 1) : out[i].size >= out[i + 1].size
    /\ \A i \in DOMAIN in : OfSize(out, in[i].size) = OfSize(in, in[i].size)

\* C8: every match list returned is non-increasing by size, and matches of
\* equal size keep their discovery order, tree matches before global ones in
\* the merged list.
C8_SortedStable ==
    pc = "scanned" =>
        /\ StablySorted(treeFound, treeMatches)
        /\ StablySorted(globalFound, globalMatches)
        /\ StablySorted(treeMatches \o globalMatches, matches)

C8_Witness ==
    /\ pc = "scanned" /\ args.incl_global
    /\ treeMatches # treeFound
    /\ matches # treeMatches \o globalMatches
    /\ \E i \in DOMAIN matches :
          /\ i < Len(matches)
          /\ matches[i].size = matches[i + 1].size
          /\ matches[i].category # "global" /\ matches[i + 1].category = "global"
    /\ \E i \in DOMAIN treeFound :
          i < Len(treeFound) /\ treeFound[i].size = treeFound[i + 1].size

\* The catalog as one list of cache types in registration order.
RECURSIVE Flatten(_)
Flatten(c) ==
    IF c > Len(CACHE_TYPES) THEN <<>>
    ELSE [t \in DOMAIN CACHE_TYPES[c].types |->
             [cat |-> CACHE_TYPES[c].cat, type |-> CACHE_TYPES[c].types[t].name,
              patterns |-> CACHE_TYPES[c].types[t].patterns]] \o Flatten(c + 1)

Registered == Flatten(1)

\* The pattern equals the name, or is '*' followed by a suffix of the name.
Covers(pattern, name) ==
    \/ pattern = name
    \/ /\ Len(pattern) >= 1 /\ SubSeq(pattern, 1, 1) = "*"
       /\ \E k \in 0..Len(name) :
             SubSeq(name, k + 1, Len(name)) = SubSeq(pattern, 2, Len(pattern))

\* The registered cache types that cover the name under the filter.
Covering(name, categories) ==
    {k \in DOMAIN Registered :
        /\ categories = {} \/ Registered[k].cat \in categories
        /\ \E p \in DOMAIN Registered[k].patterns : Covers(Registered[k].patterns[p], name)}

\* C9: a match carries the category and cache type of the first registered
\* cache type, among the allowed categories, that covers its name; a name
\* that none covers is not matched.
C9_FirstMatchWins ==
    pc = "scanned" =>
        \A i \in DOMAIN treeMatches :
            LET m == treeMatches[i]
                hits == Covering(Name(m.path), args.categories)
            IN /\ hits # {}
               /\ \E k \in hits :
                     /\ \A h \in hits : k <= h
                     /\ m.category = Registered[k].cat
                     /\ m.cache_type = Registered[k].type

C9_Witness ==
    /\ pc = "scanned" /\ args.categories = {}
    /\ \E i \in DOMAIN treeMatches :
          /\ Name(treeMatches[i].path) = "build"
          /\ treeMatches[i].category = "python" /\ treeMatches[i].cache_type = "eggs"
    /\ \E i \in DOMAIN treeMatches :
          /\ Name(treeMatches[i].path) = "x.log"
          /\ treeMatches[i].cache_type = "logs"

\* C10: whatever history.json holds, load_history returns a list, the records
\* of an array or of a wrapped array and the empty list otherwise, and a
\* following add_session succeeds.
C10_TolerantLoad ==
    /\ pc = "loaded" =>
          /\ loaded.list
          /\ loaded.items = IF histFile.shape \in {"array", "wrapped"}
                            THEN histFile.recs ELSE <<>>
    /\ outcome # "crashed"

\* C10 for every content but an object whose "sessions" value is not an array.
C10_TolerantButWrappedOther ==
    hist0.shape # "wrappedOther" => C10_TolerantLoad

====
